---- MODULE Spec2Model ----
(***************************************************************************)
(* Model of the inflation tracker backend: the record store               *)
(* (database.py), the source merger and rate calculator (fred_fetcher.py),*)
(* the startup refresh cycle (main.py), the maintenance scripts           *)
(* (setup_data.py, update_recent_data.py, add_manual_data.py) and the     *)
(* query functions behind the HTTP API.                                   *)
(*                                                                         *)
(* Number representation.  Python floats are modelled in fixed point:     *)
(*   cpi values       : integer hundredths          (100.0  -> 10000)     *)
(*   rates in percent : integer tenths of a percent (2.2 %  -> 22)        *)
(*   multipliers      : integer ten-thousandths     (1.5    -> 15000)     *)
(* Every float operation rounds its result to the grid (RoundDiv).        *)
(* None is the empty sequence <<>>, a present value v is <<v>>.           *)
(*                                                                         *)
(* Dates.  A datetime.date is the integer year*10000 + month*100 + day,   *)
(* which orders as dates do.  A 'YYYY-MM-DD' string is the triple         *)
(* <<year, month, day>> of its fields; strings compare field by field,    *)
(* as zero-padded ISO strings compare character by character.             *)
(***************************************************************************)
EXTENDS Integers, Sequences, FiniteSets, TLC

VARIABLES
    store,       \* committed rows of table inflation_data (a set of records)
    historical,  \* rows of argentina_cpi_historical.csv, in file order
    recent,      \* observations of the FRED series, [date, annual_growth_rate]
    today,       \* date.today()
    clock,       \* wall clock of the last write, stamps updated_at
    last         \* the operation just run and its outcome, until its caller
                 \* has taken it; [op |-> "idle"] between operations

vars == <<store, historical, recent, today, clock, last>>

\* ------------------------------------------------------------------ bounds

\* Operations that change the store in one behaviour (each advances the clock).
MaxWrites == 2
\* Months that pass after the initial date.
MaxTicks == 2
\* Observations the remote feed publishes after the initial state.
MaxPublish == 1

\* ------------------------------------------------------------ None / values

NoneVal == <<>>

Some(v) == <<v>>

\* Python truthiness of an optional float: None and 0.0 are both falsy.
Truthy(o) == o # <<>> /\ o[1] # 0

\* n / d rounded to the nearest grid point, ties to even (d > 0).
RoundDiv(n, d) ==
    LET q == n \div d
        r == n % d
    IN  IF 2 * r < d THEN q
        ELSE IF 2 * r > d THEN q + 1
        ELSE IF q % 2 = 0 THEN q ELSE q + 1

\* ------------------------------------------------------------------- dates

Date(y, m, d) == y * 10000 + m * 100 + d

YearOf(dt) == dt \div 10000

MonthOf(dt) == (dt \div 100) % 100

DayOf(dt) == dt % 100

IsLeap(y) == (y % 4 = 0 /\ y % 100 # 0) \/ y % 400 = 0

DaysInMonth(y, m) ==
    IF m = 2 THEN (IF IsLeap(y) THEN 29 ELSE 28)
    ELSE IF m \in {4, 6, 9, 11} THEN 30 ELSE 31

\* date.strftime('%Y-%m-%d')
StrFTime(dt) == <<YearOf(dt), MonthOf(dt), DayOf(dt)>>

\* What datetime.strptime(s, '%Y-%m-%d') accepts.
WellFormed(s) ==
    /\ Len(s) = 3
    /\ s[1] \in 1..9999
    /\ s[2] \in 1..12
    /\ s[3] \in 1..DaysInMonth(s[1], s[2])

\* datetime.strptime(s, '%Y-%m-%d').date(); callers check WellFormed first
\* (the ValueError path).
StrPTime(s) == Date(s[1], s[2], s[3])

\* Python's s > t on two date strings.
StrGreater(s, t) ==
    \/ s[1] > t[1]
    \/ s[1] = t[1] /\ s[2] > t[2]
    \/ s[1] = t[1] /\ s[2] = t[2] /\ s[3] > t[3]

\* (a.year - b.year) * 12 + (a.month - b.month)
MonthsDiff(a, b) == (YearOf(a) - YearOf(b)) * 12 + (MonthOf(a) - MonthOf(b))

\* First day of the month k months after the month of dt (k >= 0).
AddMonths(dt, k) ==
    LET idx == YearOf(dt) * 12 + (MonthOf(dt) - 1) + k
    IN  Date(idx \div 12, (idx % 12) + 1, 1)

\* The month before (year, month), as add_monthly_data computes prev_date.
PrevMonthDate(year, month) ==
    IF month - 1 = 0 THEN Date(year - 1, 12, 1) ELSE Date(year, month - 1, 1)

\* ------------------------------------------------------------ store queries

\* order_by(InflationRecord.date.desc()).first(): None on an empty table.
LatestRecord(db) ==
    IF db = {} THEN NoneVal
    ELSE Some(CHOOSE r \in db : \A q \in db : q.date <= r.date)

\* order_by(InflationRecord.date.asc()).first()
EarliestRecord(db) ==
    IF db = {} THEN NoneVal
    ELSE Some(CHOOSE r \in db : \A q \in db : q.date >= r.date)

\* filter(InflationRecord.date == d): the rows a .first() may return.
ByDate(db, d) == {r \in db : r.date = d}

\* filter(InflationRecord.year == y, InflationRecord.month == m)
ByYearMonth(db, y, m) == {r \in db : r.year = y /\ r.month = m}

\* A new InflationRecord row (updated_at defaults to the insertion time).
NewRow(d, y, m, cpi, mrate, arate, now) ==
    [date |-> d, year |-> y, month |-> m, cpi_index |-> cpi,
     monthly_rate |-> mrate, annual_rate |-> arate, updated_at |-> now]

\* ------------------------------------------------------- get_cpi_for_date

\* get_cpi_for_date without its same-month lookup.
GetCpiForDateExactOnly(db, target_date) ==
    IF ByDate(db, target_date) # {}
    THEN {Some(r.cpi_index) : r \in ByDate(db, target_date)}
    ELSE IF db # {} /\ \A r \in db : target_date > r.date
         THEN {LET l == LatestRecord(db) IN Some(l[1].cpi_index)}
    ELSE IF db # {} /\ \A r \in db : target_date < r.date
         THEN {LET e == EarliestRecord(db) IN Some(e[1].cpi_index)}
    ELSE {NoneVal}

\* get_cpi_for_date without its fallbacks to the latest and earliest rows.
GetCpiForDateNoFallback(db, target_date) ==
    IF ByDate(db, target_date) # {}
    THEN {Some(r.cpi_index) : r \in ByDate(db, target_date)}
    ELSE IF ByYearMonth(db, YearOf(target_date), MonthOf(target_date)) # {}
         THEN {Some(r.cpi_index) :
                  r \in ByYearMonth(db, YearOf(target_date), MonthOf(target_date))}
    ELSE {NoneVal}

\* get_cpi_for_date answering a date inside a gap with the latest row.
GetCpiForDateNearest(db, target_date) ==
    IF ByDate(db, target_date) # {}
    THEN {Some(r.cpi_index) : r \in ByDate(db, target_date)}
    ELSE IF ByYearMonth(db, YearOf(target_date), MonthOf(target_date)) # {}
         THEN {Some(r.cpi_index) :
                  r \in ByYearMonth(db, YearOf(target_date), MonthOf(target_date))}
    ELSE IF db # {} /\ \A r \in db : target_date < r.date
         THEN {LET e == EarliestRecord(db) IN Some(e[1].cpi_index)}
    ELSE IF db # {}
         THEN {LET l == LatestRecord(db) IN Some(l[1].cpi_index)}
    ELSE {NoneVal}

\* The values get_cpi_for_date(target_date) can return on table db.  A
\* .first() without ORDER BY may return any matching row, so the same-month
\* lookup yields one value per matching row.
GetCpiForDate(db, target_date) ==
    LET exact    == ByDate(db, target_date)
        sameYM   == ByYearMonth(db, YearOf(target_date), MonthOf(target_date))
        latest   == LatestRecord(db)
        earliest == EarliestRecord(db)
    IN  IF exact # {} THEN {Some(r.cpi_index) : r \in exact}
        ELSE IF sameYM # {} THEN {Some(r.cpi_index) : r \in sameYM}
        ELSE IF latest # NoneVal /\ target_date > latest[1].date
             THEN {Some(latest[1].cpi_index)}
        ELSE IF earliest # NoneVal /\ target_date < earliest[1].date
             THEN {Some(earliest[1].cpi_index)}
        ELSE {NoneVal}

\* ---------------------------------------------------- save_inflation_data

\* One pass of the for loop of save_inflation_data / save_new_records over
\* records[i..]: db holds the session's view of the persistent rows (updates
\* applied in place), pending the rows added and not yet flushed.  With
\* autoflush=False the existence query does not see pending rows.
RECURSIVE SaveLoop(_, _, _, _, _)
SaveLoop(db, pending, records, i, now) ==
    IF i > Len(records) THEN [ok |-> TRUE, db |-> db, pending |-> pending]
    ELSE LET record == records[i] IN
         IF ~WellFormed(record.date)
         THEN [ok |-> FALSE, db |-> db, pending |-> pending]
         ELSE LET d        == StrPTime(record.date)
                  existing == ByDate(db, d)
              IN  IF existing # {}
                  THEN LET e == CHOOSE r \in existing : TRUE
                           u == [e EXCEPT !.cpi_index = record.cpi_index,
                                          !.monthly_rate = record.monthly_rate,
                                          !.annual_rate = record.annual_rate,
                                          !.updated_at = now]
                       IN  SaveLoop((db \ {e}) \cup {u}, pending, records, i + 1, now)
                  ELSE SaveLoop(db,
                                Append(pending,
                                       NewRow(d, record.year, record.month,
                                              record.cpi_index, record.monthly_rate,
                                              record.annual_rate, now)),
                                records, i + 1, now)

\* db.commit() of a session holding pending rows: the UNIQUE constraint on
\* date rejects the flush when two pending rows carry one date.
CommitOk(pending) ==
    \A i, j \in 1..Len(pending) : pending[i].date = pending[j].date => i = j

\* Variant of the end of save_inflation_data whose failure keeps the updates
\* the loop made in place.
CommitSessionNoRollback(db, run) ==
    IF run.ok /\ CommitOk(run.pending)
    THEN [ok |-> TRUE,
          db |-> run.db \cup {run.pending[i] : i \in 1..Len(run.pending)}]
    ELSE [ok |-> FALSE, db |-> run.db]

\* The end of save_inflation_data for the session run the loop left: commit
\* and return True, or roll back to table db and return False.
CommitSession(db, run) ==
    IF run.ok /\ CommitOk(run.pending)
    THEN [ok |-> TRUE,
          db |-> run.db \cup {run.pending[i] : i \in 1..Len(run.pending)}]
    ELSE [ok |-> FALSE, db |-> db]

\* save_inflation_data(records) on table db: [ok, db].  Any exception in the
\* loop or at commit rolls the session back and returns False.
SaveInflationData(db, records, now) ==
    CommitSession(db, SaveLoop(db, <<>>, records, 1, now))

\* save_new_records(records) of update_recent_data.py: the same upsert (it
\* also rewrites year and month of an existing row, which its date fixes).
SaveNewRecords(db, records, now) == SaveInflationData(db, records, now)

\* ------------------------------------------------------------ fred_fetcher

\* a * b on ten-thousandths, truncated.
MulE4(a, b) == (a * b) \div 10000

\* m ** 12 on ten-thousandths.
Pow12E4(m) ==
    LET m2 == MulE4(m, m)
        m4 == MulE4(m2, m2)
        m8 == MulE4(m4, m4)
    IN  MulE4(m8, m4)

\* The largest m in lo..hi with m ** 12 <= x, by bisection.
RECURSIVE RootSearch(_, _, _)
RootSearch(x, lo, hi) ==
    IF lo >= hi THEN lo
    ELSE LET mid == (lo + hi + 1) \div 2
         IN  IF Pow12E4(mid) <= x THEN RootSearch(x, mid, hi)
             ELSE RootSearch(x, lo, mid - 1)

\* (1 + annual_rate) ** (1/12), in ten-thousandths, for an annual growth
\* rate g in tenths of a percent (g > -1000).
TwelfthRoot(g) ==
    IF g >= 0 THEN RootSearch(10000 + 10 * g, 10000, 10000 + g)
    ELSE RootSearch(10000 + 10 * g, 10000 + 10 * g, 10000)

\* Year-over-year growth rates the feed reports, in tenths of a percent.
AnnualGrowthRates == {120, 318}

\* The twelfth roots of the rates the feed reports, computed once.
RootTable == [g \in AnnualGrowthRates |-> TwelfthRoot(g)]

\* monthly_multiplier = (1 + annual_rate) ** (1/12)
MonthlyMultiplier(g) == RootTable[g]

\* The rows of rows, one per date of dates, in ascending date order.  Where
\* several rows share a date, drop_duplicates(keep='last') keeps the one the
\* sort left last; sort_values' quicksort is not stable, so tie says which end
\* of the concatenation order that is.
RECURSIVE SortDedup(_, _, _)
SortDedup(rows, dates, tie) ==
    IF dates = {} THEN <<>>
    ELSE LET d   == CHOOSE x \in dates : \A y \in dates : x <= y
             idx == {i \in 1..Len(rows) : rows[i].date = d}
             k   == IF tie = "first"
                    THEN CHOOSE i \in idx : \A j \in idx : i <= j
                    ELSE CHOOSE i \in idx : \A j \in idx : i >= j
         IN  <<rows[k]>> \o SortDedup(rows, dates \ {d}, tie)

\* df.sort_values('date') followed by drop_duplicates(subset=['date'],
\* keep='last'); fetch_recent_fred_data sorts only, its dates being distinct.
SortValues(df, tie) == SortDedup(df, {df[i].date : i \in 1..Len(df)}, tie)

\* load_historical_csv on the file with rows csv: the frame [date, cpi], its
\* index column renamed cpi_index; an unreadable or wrongly headed file
\* (csv = <<>>) gives the empty frame.
LoadHistoricalCsv(csv) == csv

\* One turn of the loop of create_sample_data, i its index:
\* monthly_inflation = 0.01 + 0.03 * (i % 12) / 12 = (4 + i % 12) / 400.
NextSample(prev, i) ==
    Append(prev, [date |-> AddMonths(Date(1995, 1, 1), i),
                  cpi |-> prev[Len(prev)].cpi
                            + RoundDiv(prev[Len(prev)].cpi * (4 + (i % 12)), 400)])

\* k more turns of that loop from index i on.
RECURSIVE SampleMonths(_, _, _)
SampleMonths(prev, i, k) ==
    IF k = 0 THEN prev ELSE SampleMonths(NextSample(prev, i), i + 1, k - 1)

\* The first n rows create_sample_data builds: base_cpi = 100 in January
\* 1995, then one row a month (built a year at a time).
RECURSIVE SampleRows(_)
SampleRows(n) ==
    IF n <= 1 THEN <<[date |-> Date(1995, 1, 1), cpi |-> 10000]>>
    ELSE LET m    == IF n > 12 THEN n - 12 ELSE 1
             prev == SampleRows(m)
         IN  IF Len(prev) = m THEN SampleMonths(prev, m, n - m) ELSE <<>>

\* create_sample_data(): the months of
\* pd.date_range('1995-01-01', '2016-12-31', freq='MS'), computed once.
CreateSampleData ==
    SampleRows(MonthsDiff(Date(2016, 12, 31), Date(1995, 1, 1)) + 1)

\* load_historical_csv with the file in place (exists) or not: a missing
\* file gives the frame of create_sample_data.
LoadHistoricalCsvFile(exists, csv) ==
    IF exists THEN LoadHistoricalCsv(csv) ELSE CreateSampleData

\* One turn of the reconstruction loop: prev_cpi * monthly_multiplier.
NextCpi(prev, ob) ==
    Append(prev, [date |-> ob.date,
                  cpi |-> RoundDiv(prev[Len(prev)].cpi
                                   * MonthlyMultiplier(ob.annual_growth_rate), 10000)])

\* The reconstruction loop of fetch_recent_fred_data: df['cpi'] = 100.0, then
\* cpi[i] = cpi[i-1] * monthly_multiplier for i >= 1.
RECURSIVE ReconstructCpi(_, _)
ReconstructCpi(obs, n) ==
    IF n = 0 THEN <<>>
    ELSE IF n = 1 THEN <<[date |-> obs[1].date, cpi |-> 10000]>>
    ELSE NextCpi(ReconstructCpi(obs, n - 1), obs[n])

ReconstructFrame(df) == ReconstructCpi(df, Len(df))

\* fetch_recent_fred_data: the observations sorted by date with the index
\* rebuilt from the growth rates; the empty frame when the request fails
\* (fetched = FALSE) or returns nothing.
FetchRecentFredData(obs, fetched) ==
    IF ~fetched \/ Len(obs) = 0 THEN <<>>
    ELSE ReconstructFrame(SortValues(obs, "last"))

\* Variant of the rescaling that leaves the recent frame as fetched.
AdjustRecentUnscaled(historical_df, recent_df) == recent_df

\* The recent frame rescaled to continue the historical one:
\* adjustment_factor = last_historical_cpi / first_recent_cpi.
AdjustRecent(historical_df, recent_df) ==
    [i \in 1..Len(recent_df) |->
        [recent_df[i] EXCEPT !.cpi =
            RoundDiv(recent_df[i].cpi * historical_df[Len(historical_df)].cpi,
                     recent_df[1].cpi)]]

\* pd.concat of the two frames, or the one that is not empty.
ConcatFrames(historical_df, recent_df) ==
    IF Len(historical_df) > 0 /\ Len(recent_df) > 0
    THEN historical_df \o AdjustRecent(historical_df, recent_df)
    ELSE IF Len(historical_df) > 0 THEN historical_df
    ELSE recent_df

\* combined[combined['date'].dt.year >= start_year]
FilterYear(combined, start_year) ==
    SelectSeq(combined, LAMBDA r : YearOf(r.date) >= start_year)

\* The name of the index column of the combined frame: the historical frame
\* is renamed back to cpi only where it is concatenated with the recent one.
CombinedColumn(historical_df, recent_df) ==
    IF Len(historical_df) > 0 /\ Len(recent_df) = 0 THEN "cpi_index" ELSE "cpi"

\* combine_data_sources on the two loaded frames: [column, rows].
CombineFrames(historical_df, recent_df, start_year, tie) ==
    IF Len(historical_df) = 0 /\ Len(recent_df) = 0
    THEN [column |-> "cpi", rows |-> <<>>]
    ELSE [column |-> CombinedColumn(historical_df, recent_df),
          rows |-> SortValues(FilterYear(ConcatFrames(historical_df, recent_df),
                                         start_year),
                              tie)]

\* combine_data_sources(start_year)
CombineDataSources(csv, obs, fetched, start_year, tie) ==
    CombineFrames(LoadHistoricalCsv(csv), FetchRecentFredData(obs, fetched),
                  start_year, tie)

\* Series.pct_change() * 100 of cur against prev, in tenths of a percent
\* (prev > 0: the sources of this model deliver positive index values).
PctChange(cur, prev) == RoundDiv((cur - prev) * 1000, prev)

\* calculate_inflation_rates: rates by row position, NaN filled with 0.
CalculateInflationRates(df) ==
    [i \in 1..Len(df) |->
        [date |-> df[i].date, cpi |-> df[i].cpi,
         monthly_rate |-> IF i > 1 THEN PctChange(df[i].cpi, df[i - 1].cpi) ELSE 0,
         annual_rate  |-> IF i > 12 THEN PctChange(df[i].cpi, df[i - 12].cpi) ELSE 0]]

\* The record dicts get_processed_data builds from the rows of df.
ToRecords(df) ==
    [i \in 1..Len(df) |->
        [date |-> StrFTime(df[i].date),
         year |-> YearOf(df[i].date),
         month |-> MonthOf(df[i].date),
         cpi_index |-> df[i].cpi,
         monthly_rate |-> df[i].monthly_rate,
         annual_rate |-> df[i].annual_rate]]

\* get_processed_data on the combined frame: [raised, data].  An empty frame
\* gives []; calculate_inflation_rates reads df['cpi'], which raises KeyError
\* on a frame whose index column is named cpi_index.
ProcessFrame(combined) ==
    IF Len(combined.rows) = 0 THEN [raised |-> FALSE, data |-> <<>>]
    ELSE IF combined.column # "cpi" THEN [raised |-> TRUE, data |-> <<>>]
    ELSE [raised |-> FALSE,
          data |-> ToRecords(CalculateInflationRates(combined.rows))]

\* get_processed_data(start_year): [raised, data], data the list of record
\* dicts.
GetProcessedData(csv, obs, fetched, start_year, tie) ==
    ProcessFrame(CombineDataSources(csv, obs, fetched, start_year, tie))

\* ------------------------------------------------------------ startup_event

\* very_recent_data, the hardcoded months of startup_event.
VeryRecentData ==
    << [year |-> 2025, month |-> 1, monthly_rate |-> 22, annual_rate |-> 845],
       [year |-> 2025, month |-> 2, monthly_rate |-> 24, annual_rate |-> 669],
       [year |-> 2025, month |-> 3, monthly_rate |-> 37, annual_rate |-> 559],
       [year |-> 2025, month |-> 4, monthly_rate |-> 28, annual_rate |-> 473],
       [year |-> 2025, month |-> 5, monthly_rate |-> 15, annual_rate |-> 435],
       [year |-> 2025, month |-> 6, monthly_rate |-> 16, annual_rate |-> 394],
       [year |-> 2025, month |-> 7, monthly_rate |-> 19, annual_rate |-> 370],
       [year |-> 2025, month |-> 8, monthly_rate |-> 19, annual_rate |-> 336],
       [year |-> 2025, month |-> 9, monthly_rate |-> 21, annual_rate |-> 318] >>

\* previous_cpi * (1 + monthly_rate_percent / 100)
CalculateCpiFromMonthlyRate(previous_cpi, monthly_rate_percent) ==
    RoundDiv(previous_cpi * (1000 + monthly_rate_percent), 1000)

\* The rows the FRED step of startup_event adds: the new records whose date
\* no committed row carries.
FredNewRows(db, new_records, now) ==
    LET fresh == SelectSeq(new_records,
                           LAMBDA r : ByDate(db, StrPTime(r.date)) = {})
    IN  [i \in 1..Len(fresh) |->
            NewRow(StrPTime(fresh[i].date), fresh[i].year, fresh[i].month,
                   fresh[i].cpi_index, fresh[i].monthly_rate,
                   fresh[i].annual_rate, now)]

\* The loop over very_recent_data from entry i on: the rows it adds, the
\* index compounding forward from current_cpi.
RECURSIVE HardcodedRows(_, _, _, _, _, _)
HardcodedRows(db, i, latest_date, current_date, current_cpi, now) ==
    IF i > Len(VeryRecentData) THEN <<>>
    ELSE LET month_data == VeryRecentData[i]
             month_date == StrPTime(<<month_data.year, month_data.month, 1>>)
         IN  IF month_date > latest_date /\ month_date <= current_date
             THEN LET cpi  == CalculateCpiFromMonthlyRate(current_cpi,
                                                           month_data.monthly_rate)
                      rest == HardcodedRows(db, i + 1, latest_date, current_date,
                                            cpi, now)
                  IN  IF ByDate(db, month_date) = {}
                      THEN <<NewRow(month_date, month_data.year, month_data.month,
                                    cpi, month_data.monthly_rate,
                                    month_data.annual_rate, now)>> \o rest
                      ELSE rest
             ELSE HardcodedRows(db, i + 1, latest_date, current_date,
                                current_cpi, now)

SeqToSet(q) == {q[i] : i \in 1..Len(q)}

\* Variant of the population step that goes on to the refresh without data.
PopulateWithAlwaysGoing(db, got, now) ==
    IF ~got.raised /\ Len(got.data) > 0
    THEN [go |-> TRUE, db |-> SaveInflationData(db, got.data, now).db]
    ELSE [go |-> TRUE, db |-> db]

\* The population step once get_processed_data ended with got: an exception
\* ends the handler in its except clause, no data makes it return.
PopulateWith(db, got, now) ==
    IF ~got.raised /\ Len(got.data) > 0
    THEN [go |-> TRUE, db |-> SaveInflationData(db, got.data, now).db]
    ELSE [go |-> FALSE, db |-> db]

\* The initial population of startup_event: [go, db].  go is FALSE where the
\* handler returns early.
StartupPopulate(db, csv, obs, fetched, tie, now) ==
    IF Cardinality(db) = 0
    THEN PopulateWith(db, GetProcessedData(csv, obs, fetched, 1995, tie), now)
    ELSE [go |-> TRUE, db |-> db]

\* [r for r in all_data if r['date'] > latest_str]
NewerRecords(all_data, latest_str) ==
    SelectSeq(all_data, LAMBDA r : StrGreater(r.date, latest_str))

\* db.commit() after the FRED step added the rows added: [ok, db].
FredCommit(db, added) ==
    IF CommitOk(added) THEN [ok |-> TRUE, db |-> db \cup SeqToSet(added)]
    ELSE [ok |-> FALSE, db |-> db]

\* The FRED step once new_records is known.
FredStep(db, months_diff, new_records, now) ==
    IF months_diff > 0 /\ Len(new_records) > 0
    THEN FredCommit(db, FredNewRows(db, new_records, now))
    ELSE [ok |-> TRUE, db |-> db]

\* start_year = latest_date.year if latest_date.year >= 2017 else 2017
StartYear(latest_date) ==
    IF YearOf(latest_date) >= 2017 THEN YearOf(latest_date) ELSE 2017

\* The FRED step once get_processed_data, called when months_diff > 0,
\* ended with got.
FredWith(db, months_diff, got, latest_str, now) ==
    IF months_diff > 0 /\ got.raised THEN [ok |-> FALSE, db |-> db]
    ELSE FredStep(db, months_diff, NewerRecords(got.data, latest_str), now)

\* The FRED step of startup_event on table db, whose latest row is dated
\* latest_date: [ok, db].  ok is FALSE when the step raises, which ends the
\* handler in its except clause with nothing committed.
StartupFred(db, latest_date, current_date, csv, obs, fetched, tie, now) ==
    FredWith(db, MonthsDiff(current_date, latest_date),
             GetProcessedData(csv, obs, fetched, StartYear(latest_date), tie),
             StrFTime(latest_date), now)

\* Variant of the hardcoded step that also re-stamps the latest row.
StartupHardcodedTouching(db, latest, current_date, now) ==
    ((db \ {latest}) \cup {[latest EXCEPT !.updated_at = now]})
        \cup SeqToSet(HardcodedRows(db, 1, latest.date, current_date,
                                    latest.cpi_index, now))

\* The hardcoded step of startup_event on table db with latest row latest.
StartupHardcoded(db, latest, current_date, now) ==
    IF MonthsDiff(current_date, latest.date) > 0
    THEN db \cup SeqToSet(HardcodedRows(db, 1, latest.date, current_date,
                                        latest.cpi_index, now))
    ELSE db

\* startup_event after its FRED step: the except clause leaves table db,
\* else the hardcoded step runs on the table the FRED step committed.
AfterFred(db, fred, current_date, now) ==
    IF ~fred.ok THEN db
    ELSE StartupHardcoded(fred.db, LatestRecord(fred.db)[1], current_date, now)

\* startup_event after the population step left table db.
AfterPopulate(go, db, csv, obs, current_date, fetched, tie, now) ==
    IF ~go \/ LatestRecord(db) = NoneVal THEN db
    ELSE AfterFred(db,
                   StartupFred(db, LatestRecord(db)[1].date, current_date, csv,
                               obs, fetched, tie, now),
                   current_date, now)

PopulateThen(pop, csv, obs, current_date, fetched, tie, now) ==
    AfterPopulate(pop.go, pop.db, csv, obs, current_date, fetched, tie, now)

\* startup_event(): the table it leaves.  (fetched1, tie1) and (fetched2,
\* tie2) are the outcomes of its two calls of get_processed_data.
StartupEvent(db, csv, obs, current_date, fetched1, tie1, fetched2, tie2, now) ==
    PopulateThen(StartupPopulate(db, csv, obs, fetched1, tie1, now),
                 csv, obs, current_date, fetched2, tie2, now)

\* ---------------------------------------------------------- add_manual_data

\* get_latest_cpi(): the latest row, or None.
GetLatestCpi(db) == LatestRecord(db)

\* estimate_annual_rate_from_monthly
EstimateAnnualRateFromMonthly(monthly_rate) == monthly_rate * 12

\* get_annual_rate_from_database(year, month): [raised, value].  It needs the
\* row of the month itself and the row twelve months earlier; a zero index in
\* the earlier row raises ZeroDivisionError.
GetAnnualRateFromDatabase(db, year, month) ==
    LET current_record == ByDate(db, Date(year, month, 1))
        prev_record    == ByDate(db, Date(year - 1, month, 1))
    IN  IF current_record = {} \/ prev_record = {}
        THEN [raised |-> FALSE, value |-> NoneVal]
        ELSE LET c == (CHOOSE r \in current_record : TRUE).cpi_index
                 q == (CHOOSE r \in prev_record : TRUE).cpi_index
             IN  IF q = 0 THEN [raised |-> TRUE, value |-> NoneVal]
                 ELSE [raised |-> FALSE, value |-> Some(PctChange(c, q))]

\* cpi * ((1 + monthly_rate / 100) ** n) for n >= 0, and for n < 0 with
\* monthly_rate > -100.
RECURSIVE Compound(_, _, _)
Compound(cpi, monthly_rate, n) ==
    IF n = 0 THEN cpi
    ELSE IF n > 0
         THEN Compound(CalculateCpiFromMonthlyRate(cpi, monthly_rate),
                       monthly_rate, n - 1)
         ELSE Compound(RoundDiv(cpi * 1000, 1000 + monthly_rate),
                       monthly_rate, n + 1)

\* 0.0 ** n for n < 0 raises ZeroDivisionError.
CompoundRaises(monthly_rate, n) == n < 0 /\ 1000 + monthly_rate = 0

\* The index add_monthly_data computes when cpi_index is not given:
\* [ok, raised, cpi].  prev_cpi is what get_cpi_for_date(prev_date) returned;
\* updating says whether the row of the month exists already.
ComputedCpi(db, year, month, monthly_rate, prev_cpi, updating) ==
    LET latest      == GetLatestCpi(db)
        months_diff == (year - YearOf(latest[1].date)) * 12
                       + (month - MonthOf(latest[1].date))
    IN  IF Truthy(prev_cpi)
        THEN [ok |-> TRUE, raised |-> FALSE,
              cpi |-> CalculateCpiFromMonthlyRate(prev_cpi[1], monthly_rate)]
        ELSE IF latest # NoneVal /\ latest[1].cpi_index # 0
        THEN IF updating /\ months_diff <= 0
             THEN [ok |-> TRUE, raised |-> FALSE,
                   cpi |-> CalculateCpiFromMonthlyRate(latest[1].cpi_index,
                                                       monthly_rate)]
             ELSE IF CompoundRaises(monthly_rate, months_diff)
             THEN [ok |-> FALSE, raised |-> TRUE, cpi |-> 0]
             ELSE [ok |-> TRUE, raised |-> FALSE,
                   cpi |-> Compound(latest[1].cpi_index, monthly_rate, months_diff)]
        ELSE [ok |-> FALSE, raised |-> FALSE, cpi |-> 0]

\* add_monthly_data(year, month, monthly_rate, annual_rate, cpi_index) on
\* table db: [ok, db].  annual_rate and cpi_index are optional; prev_cpi is
\* the value get_cpi_for_date(prev_date) returns when it is asked.
AddMonthlyData(db, year, month, monthly_rate, annual_rate, cpi_index, prev_cpi, now) ==
    LET record_date == Date(year, month, 1)
        calculated  == GetAnnualRateFromDatabase(db, year, month)
        annual      == IF annual_rate # NoneVal THEN annual_rate[1]
                       ELSE IF calculated.value # NoneVal THEN calculated.value[1]
                       ELSE EstimateAnnualRateFromMonthly(monthly_rate)
        existing    == ByDate(db, record_date)
        computed    == ComputedCpi(db, year, month, monthly_rate, prev_cpi,
                                   existing # {})
        cpi         == IF Truthy(cpi_index) THEN cpi_index[1] ELSE computed.cpi
        failed      == \/ annual_rate = NoneVal /\ calculated.raised
                       \/ ~Truthy(cpi_index) /\ ~computed.ok
    IN  IF failed THEN [ok |-> FALSE, db |-> db]
        ELSE IF existing # {}
        THEN LET e == CHOOSE r \in existing : TRUE
             IN  [ok |-> TRUE,
                  db |-> (db \ {e}) \cup
                         {[e EXCEPT !.monthly_rate = monthly_rate,
                                    !.annual_rate = annual,
                                    !.cpi_index = cpi,
                                    !.updated_at = now]}]
        ELSE [ok |-> TRUE,
              db |-> db \cup {NewRow(record_date, year, month, cpi,
                                     monthly_rate, annual, now)}]

\* --------------------------------------------------------- price conversion

\* round(x, k) of the quotient n / d, on the grid of k decimals.
PyRound(n, d) == IF d > 0 THEN RoundDiv(n, d) ELSE RoundDiv(-n, -d)

\* calculate_price_conversion(amount, from_date, to_date) once the two
\* lookups returned from_cpi and to_cpi: "ValueError" when one is None,
\* "ZeroDivisionError" when from_cpi is 0.0, else the result dict, with
\* converted_amount and percentage_change in hundredths and multiplier in
\* ten-thousandths.  amount is in whole units.
CalculatePriceConversion(amount, from_cpi, to_cpi) ==
    IF from_cpi = NoneVal \/ to_cpi = NoneVal
    THEN [raised |-> "ValueError"]
    ELSE IF from_cpi[1] = 0 THEN [raised |-> "ZeroDivisionError"]
    ELSE [raised |-> "",
          original_amount |-> amount,
          converted_amount |-> PyRound(amount * to_cpi[1] * 100, from_cpi[1]),
          multiplier |-> PyRound(to_cpi[1] * 10000, from_cpi[1]),
          percentage_change |-> PyRound((to_cpi[1] - from_cpi[1]) * 10000, from_cpi[1]),
          from_cpi |-> from_cpi[1],
          to_cpi |-> to_cpi[1]]

\* convert_price answering every exception with status 500.
ConvertPriceResponseAll500(amount, from_date, to_date, conv) ==
    IF ~WellFormed(from_date) \/ ~WellFormed(to_date) \/ conv.raised # ""
    THEN [status |-> 500]
    ELSE [status |-> 200,
          original_amount |-> amount,
          original_date |-> from_date,
          target_date |-> to_date,
          converted_amount |-> conv.converted_amount,
          inflation_rate |-> conv.multiplier,
          percentage_change |-> conv.percentage_change]

\* convert_price: the HTTP response for the parsed or unparsable date
\* strings, given the conversion outcome conv of well-formed dates.
ConvertPriceResponse(amount, from_date, to_date, conv) ==
    IF ~WellFormed(from_date) \/ ~WellFormed(to_date) \/ conv.raised = "ValueError"
    THEN [status |-> 400]
    ELSE IF conv.raised # "" THEN [status |-> 500]
    ELSE [status |-> 200,
          original_amount |-> amount,
          original_date |-> from_date,
          target_date |-> to_date,
          converted_amount |-> conv.converted_amount,
          inflation_rate |-> conv.multiplier,
          percentage_change |-> conv.percentage_change]

\* ----------------------------------------------------------- fill_2017_gap

\* Variant of the monthly growth that spreads the total growth evenly.
GrowthLinear(total_growth) == 10000 + (total_growth - 10000) \div 12

\* total_growth ** (1/12) on ten-thousandths, for total_growth >= 0.
GrowthRoot(total_growth) ==
    IF total_growth = 0 THEN 0
    ELSE IF total_growth >= 10000
    THEN RootSearch(total_growth, 10000, 10000 + (total_growth - 10000) \div 10)
    ELSE RootSearch(total_growth, total_growth, 10000)

\* The rows .first() may return for a filter on year and month.
FirstOfMonth(db, year, month) ==
    IF ByYearMonth(db, year, month) = {} THEN {NoneVal}
    ELSE {Some(r) : r \in ByYearMonth(db, year, month)}

\* current_cpi after the loop of interpolate_2017_months reached month.
RECURSIVE InterpolatedCpi(_, _, _)
InterpolatedCpi(start_cpi, monthly_growth_rate, month) ==
    IF month = 0 THEN start_cpi
    ELSE MulE4(InterpolatedCpi(start_cpi, monthly_growth_rate, month - 1),
               monthly_growth_rate)

\* annual_rate of an interpolated month with index current_cpi, in tenths:
\* against the row of the same month of 2016 where there is one, else
\* monthly_rate * 12.
InterpolatedAnnual(prev_year_same_month, current_cpi, monthly_rate) ==
    IF prev_year_same_month # NoneVal
    THEN PyRound((current_cpi - prev_year_same_month[1].cpi_index) * 1000,
                 prev_year_same_month[1].cpi_index)
    ELSE monthly_rate * 12

\* The record dict of one interpolated month; monthly_rate is
\* (monthly_growth_rate - 1) * 100 in tenths of a percent.
InterpolatedRecord(db, start_cpi, monthly_growth_rate, month) ==
    [year |-> 2017,
     month |-> month,
     complex |-> FALSE,
     monthly_rate |-> RoundDiv(monthly_growth_rate - 10000, 10),
     annual_rate |->
         InterpolatedAnnual(CHOOSE r \in FirstOfMonth(db, 2016, month) : TRUE,
                            InterpolatedCpi(start_cpi, monthly_growth_rate, month),
                            RoundDiv(monthly_growth_rate - 10000, 10)),
     cpi_index |-> InterpolatedCpi(start_cpi, monthly_growth_rate, month)]

\* The loop of interpolate_2017_months for a growth that is a real number.
InterpolatedRecords(db, start_cpi, monthly_growth_rate) ==
    [month \in 1..11 |->
        InterpolatedRecord(db, start_cpi, monthly_growth_rate, month)]

\* The records of a negative total growth: its twelfth root is a complex
\* number, and so is every rate and index of the eleven records.
ComplexRecords ==
    [month \in 1..11 |->
        [year |-> 2017, month |-> month, complex |-> TRUE,
         monthly_rate |-> 0, annual_rate |-> 0, cpi_index |-> 0]]

\* Some interpolated month meets a 2016 row of the same month whose index
\* is 0.0: the annual rate raises ZeroDivisionError.
AnnualRaises(db) ==
    \E month \in 1..11 : \E r \in ByYearMonth(db, 2016, month) : r.cpi_index = 0

\* interpolate_2017_months() with the two anchor rows found: [raised,
\* records].  A missing anchor returns []; a start index of 0.0 raises
\* ZeroDivisionError.
Interpolate2017Months(db, dec_2016, dec_2017) ==
    IF dec_2016 = NoneVal \/ dec_2017 = NoneVal
    THEN [raised |-> "", records |-> <<>>]
    ELSE IF dec_2016[1].cpi_index = 0
    THEN [raised |-> "ZeroDivisionError", records |-> <<>>]
    ELSE IF (dec_2016[1].cpi_index < 0) # (dec_2017[1].cpi_index < 0)
    THEN [raised |-> "", records |-> ComplexRecords]
    ELSE IF AnnualRaises(db)
    THEN [raised |-> "ZeroDivisionError", records |-> <<>>]
    ELSE [raised |-> "",
          records |->
              InterpolatedRecords(
                  db, dec_2016[1].cpi_index,
                  GrowthRoot(PyRound(dec_2017[1].cpi_index * 10000,
                                     dec_2016[1].cpi_index)))]

\* add_monthly_data for one interpolated record on table db: the table it
\* leaves.  A complex value cannot be bound to a Float column: the commit
\* raises and the call rolls back.
AddInterpolated(db, record, now) ==
    IF record.complex THEN db
    ELSE AddMonthlyData(db, record.year, record.month, record.monthly_rate,
                        Some(record.annual_rate), Some(record.cpi_index),
                        CHOOSE c \in GetCpiForDate(
                                        db, PrevMonthDate(record.year, record.month)) :
                            TRUE,
                        now).db

\* The loop of main() over records[i..], one add_monthly_data call each.
RECURSIVE AddInterpolatedFrom(_, _, _, _)
AddInterpolatedFrom(db, records, i, now) ==
    IF i > Len(records) THEN db
    ELSE AddInterpolatedFrom(AddInterpolated(db, records[i], now), records,
                             i + 1, now)

\* main() of fill_2017_gap.py with choice '1', given the outcome got of
\* interpolate_2017_months: the table it leaves.  It returns at once when no
\* month of 2017 is missing, and ends without writing on an exception.
FillGapWith(db, got, now) ==
    IF \A month \in 1..12 : ByYearMonth(db, 2017, month) # {} THEN db
    ELSE IF got.raised # "" THEN db
    ELSE AddInterpolatedFrom(db, got.records, 1, now)

\* ----------------------------------------------------------------- summary

\* date.toordinal(): days from 0001-01-01, which is day 1.
ToOrdinal(dt) ==
    LET y == YearOf(dt)
        m == MonthOf(dt)
        before == <<0, 31, 59, 90, 120, 151, 181, 212, 243, 273, 304, 334>>
    IN  (y - 1) * 365 + (y - 1) \div 4 - (y - 1) \div 100 + (y - 1) \div 400
          + before[m] + (IF m > 2 /\ IsLeap(y) THEN 1 ELSE 0) + DayOf(dt)

\* filter(InflationRecord.date >= latest.date - timedelta(days=365))
LastTwelveMonths(db, latest) ==
    {r \in db : ToOrdinal(r.date) >= ToOrdinal(latest.date) - 365}

\* sum(r.monthly_rate for r in rows)
RECURSIVE SumMonthlyRate(_)
SumMonthlyRate(rows) ==
    IF rows = {} THEN 0
    ELSE LET r == CHOOSE q \in rows : TRUE
         IN  r.monthly_rate + SumMonthlyRate(rows \ {r})

\* round(sum / len, 2) if last_12_months else 0, in hundredths of a percent
\* (monthly rates are in tenths).
AvgMonthly(last_12_months) ==
    IF last_12_months = {} THEN 0
    ELSE PyRound(SumMonthlyRate(last_12_months) * 10, Cardinality(last_12_months))

\* get_inflation_summary past its "if not latest" guard: [raised, value].
\* The division by first_record.cpi_index raises when that index is 0.0.
\* Both averages and totals are in hundredths of a percent.
SummaryOf(db, latest, first_record) ==
    IF first_record.cpi_index = 0
    THEN [raised |-> "ZeroDivisionError", value |-> NoneVal]
    ELSE [raised |-> "",
          value |-> Some([current_monthly |-> latest.monthly_rate,
                          current_annual |-> latest.annual_rate,
                          avg_last_12_months |->
                              AvgMonthly(LastTwelveMonths(db, latest)),
                          total_inflation_since_start |->
                              PyRound((latest.cpi_index - first_record.cpi_index)
                                          * 10000, first_record.cpi_index),
                          last_updated |-> StrFTime(latest.date)])]

\* get_inflation_summary answering an empty table with a summary of zeros.
GetInflationSummaryZeros(db) ==
    IF db = {}
    THEN [raised |-> "",
          value |-> Some([current_monthly |-> 0, current_annual |-> 0,
                          avg_last_12_months |-> 0,
                          total_inflation_since_start |-> 0,
                          last_updated |-> <<>>])]
    ELSE SummaryOf(db, LatestRecord(db)[1], EarliestRecord(db)[1])

\* get_inflation_summary(): [raised, value], value None on an empty table.
GetInflationSummary(db) ==
    IF LatestRecord(db) = NoneVal
    THEN [raised |-> "", value |-> NoneVal]
    ELSE SummaryOf(db, LatestRecord(db)[1], EarliestRecord(db)[1])

\* get_current_inflation: the HTTP response for the outcome summary of
\* get_inflation_summary; an exception it does not catch answers 500.
CurrentInflationResponse(summary) ==
    IF summary.raised # "" THEN [status |-> 500]
    ELSE IF summary.value = NoneVal THEN [status |-> 404]
    ELSE [status |-> 200,
          current_monthly |-> summary.value[1].current_monthly,
          current_annual |-> summary.value[1].current_annual,
          avg_last_12_months |-> summary.value[1].avg_last_12_months,
          total_inflation_since_1995 |->
              summary.value[1].total_inflation_since_start,
          last_updated |-> summary.value[1].last_updated]

\* ------------------------------------------------------- /inflation/range

\* total_inflation = 234.5, in hundredths of a percent.
SampleTotalInflation == 23450

\* get_inflation_range: the HTTP response.  It reads no record: the total is
\* the sample value, multiplier (ten-thousandths) is 1 + total / 100 and
\* years (hundredths) is the day count over 365.25.
InflationRangeResponse(start_date, end_date) ==
    IF ~WellFormed(start_date) \/ ~WellFormed(end_date)
    THEN [status |-> 400]
    ELSE [status |-> 200,
          start_date |-> start_date,
          end_date |-> end_date,
          total_inflation_percent |-> SampleTotalInflation,
          multiplier |-> 10000 + SampleTotalInflation,
          years |-> PyRound((ToOrdinal(StrPTime(end_date))
                               - ToOrdinal(StrPTime(start_date))) * 10000, 36525)]

\* ----------------------------------------------------- /admin/update-data

\* trigger_data_update: the response body (without its timestamp).  The
\* handler fetches nothing and touches no record.
TriggerDataUpdate ==
    [status |-> "success", message |-> "Data update triggered"]

\* ------------------------------------------------ scripts around the store

\* setup_initial_data once get_processed_data ended with got: the script
\* exits with an error on an exception and on no data.
SaveProcessed(db, got, now) ==
    IF got.raised \/ Len(got.data) = 0 THEN [ok |-> FALSE, db |-> db]
    ELSE SaveInflationData(db, got.data, now)

\* setup_initial_data() of setup_data.py: [ok, db].
SetupInitialData(db, csv, obs, fetched, tie, now) ==
    SaveProcessed(db, GetProcessedData(csv, obs, fetched, 1995, tie), now)

\* The end of main() of update_recent_data.py once new_records is known.
SaveNewer(db, new_records, now) ==
    IF Len(new_records) = 0 THEN [ok |-> TRUE, db |-> db]
    ELSE SaveNewRecords(db, new_records, now)

\* main() of update_recent_data.py once get_processed_data ended with got.
UpdateFrom(db, got, latest_str, now) ==
    IF got.raised \/ Len(got.data) = 0 THEN [ok |-> FALSE, db |-> db]
    ELSE SaveNewer(db, NewerRecords(got.data, latest_str), now)

\* main() of update_recent_data.py with latest row dated latest_date.
UpdateSince(db, latest_date, csv, obs, current_date, fetched, tie, now) ==
    IF MonthsDiff(current_date, latest_date) <= 0 THEN [ok |-> TRUE, db |-> db]
    ELSE UpdateFrom(db,
                    GetProcessedData(csv, obs, fetched, YearOf(latest_date), tie),
                    StrFTime(latest_date), now)

\* main() of update_recent_data.py: [ok, db].
UpdateRecentData(db, csv, obs, current_date, fetched, tie, now) ==
    IF LatestRecord(db) = NoneVal THEN [ok |-> FALSE, db |-> db]
    ELSE UpdateSince(db, LatestRecord(db)[1].date, csv, obs, current_date,
                     fetched, tie, now)

\* ------------------------------------------------------------- environment

\* n rows of one month each from first on, the index growing by step.
MonthlyRows(first, n, cpi, step) ==
    [k \in 1..n |-> [date |-> AddMonths(first, k - 1), cpi |-> cpi + step * (k - 1)]]

\* A historical file of first-of-month rows.
HistFirstOfMonth == MonthlyRows(Date(2024, 3, 1), 6, 9000, 180)

\* The same file with its last row dated mid-month.
HistMidMonth ==
    [HistFirstOfMonth EXCEPT ![Len(HistFirstOfMonth)].date = Date(2024, 8, 15)]

\* The files the model starts from; <<>> is a file that cannot be loaded.
\* (The file exists: the sample series of create_sample_data is not drawn.)
HistoricalFiles == {<<>>, HistFirstOfMonth, HistMidMonth}

\* The rate of the observations the feed publishes after the start.
PublishedRates == {120}

\* The feed at the start: monthly observations from August 2024 to May 2025.
InitialObservations ==
    [k \in 1..10 |-> [date |-> AddMonths(Date(2024, 8, 1), k - 1),
                      annual_growth_rate |-> 318]]

InitialToday == Date(2025, 8, 15)

\* Outcomes of one call of get_processed_data: whether the FRED request
\* succeeds, and which row of a duplicated date the sort leaves last.
Fetches == BOOLEAN

Ties == {"first", "last"}

\* Calls of add_monthly_data: <<year, month, monthly_rate, annual_rate, cpi_index>>.
AddCalls ==
    { <<2025, 12, 21, NoneVal, NoneVal>>,
      <<2025, 6, -1000, NoneVal, NoneVal>>,
      <<2024, 1, -1000, NoneVal, NoneVal>>,
      <<2024, 10, 21, Some(400), NoneVal>>,
      <<2024, 10, 21, NoneVal, Some(12000)>> }

\* Inputs of the queries.
QueryDates ==
    {Date(2024, 1, 10), Date(2024, 8, 1), Date(2024, 8, 20), Date(2025, 10, 10),
     Date(2026, 2, 1)}

\* Calls of /inflation/convert: <<amount, from_date, to_date>>.
ConvertCalls ==
    { <<1000, <<2024, 8, 1>>, <<2025, 6, 1>> >>,
      <<1000, <<2025, 6, 1>>, <<2024, 8, 1>> >>,
      <<1000, <<2024, 10, 20>>, <<2024, 8, 1>> >>,
      <<1000, <<2024, 8, 1>>, <<2024, 10, 20>> >>,
      <<1000, <<2025, 13, 1>>, <<2024, 8, 1>> >>,
      <<1000, <<2024, 8, 1>>, <<2024, 2, 30>> >> }

\* ----------------------------------------------------------------- actions
\* Operations run one at a time, each as one step: the step leaves the
\* operation and its outcome in last, and Return hands it to the caller.

Idle == last.op = "idle"

Init ==
    /\ store = {}
    /\ historical \in HistoricalFiles
    /\ recent = InitialObservations
    /\ today = InitialToday
    /\ clock = 0
    /\ last = [op |-> "idle"]

\* The caller takes the outcome of the operation.
Return ==
    /\ ~Idle
    /\ last' = [op |-> "idle"]
    /\ UNCHANGED <<store, historical, recent, today, clock>>

\* A month passes.
Tick ==
    /\ Idle
    /\ MonthsDiff(today, InitialToday) < MaxTicks
    /\ today' = Date(YearOf(AddMonths(today, 1)), MonthOf(AddMonths(today, 1)),
                     DayOf(today))
    /\ UNCHANGED <<store, historical, recent, clock, last>>

\* The feed publishes the observation of the next month, never a future one.
FredPublish ==
    /\ Idle
    /\ Len(recent) < Len(InitialObservations) + MaxPublish
    /\ AddMonths(recent[Len(recent)].date, 1) <= today
    /\ \E g \in PublishedRates :
          recent' = Append(recent, [date |-> AddMonths(recent[Len(recent)].date, 1),
                                    annual_growth_rate |-> g])
    /\ UNCHANGED <<store, historical, today, clock, last>>

\* A step that leaves the table db: it advances the clock when it changes
\* the store, which it may do MaxWrites times.
Write(db) ==
    /\ db # store => clock < MaxWrites
    /\ store' = db
    /\ clock' = IF db # store THEN clock + 1 ELSE clock
    /\ UNCHANGED <<historical, recent, today>>

\* A script ends with outcome r = [ok, db].
Finish(op, r) ==
    /\ Write(r.db)
    /\ last' = [op |-> op, before |-> store, ok |-> r.ok]

\* The application starts: startup_event().
Startup ==
    /\ Idle
    /\ \E fetched1 \in (IF store = {} THEN Fetches ELSE {TRUE}),
          tie1 \in (IF store = {} THEN Ties ELSE {"last"}),
          fetched2 \in Fetches, tie2 \in Ties :
          \E db \in {StartupEvent(store, historical, recent, today,
                                   fetched1, tie1, fetched2, tie2, clock + 1)} :
             /\ Write(db)
             /\ last' = [op |-> "startup", before |-> store,
                         fetched1 |-> fetched1, fetched2 |-> fetched2]

\* python setup_data.py
Setup ==
    /\ Idle
    /\ \E fetched \in Fetches, tie \in Ties :
          \E r \in {SetupInitialData(store, historical, recent, fetched, tie,
                                     clock + 1)} :
             /\ Write(r.db)
             /\ last' = [op |-> "setup", before |-> store, ok |-> r.ok,
                         fetched |-> fetched, tie |-> tie]

\* python update_recent_data.py
UpdateRecent ==
    /\ Idle
    /\ \E fetched \in Fetches, tie \in Ties :
          \E r \in {UpdateRecentData(store, historical, recent, today,
                                     fetched, tie, clock + 1)} :
             Finish("update", r)

\* add_monthly_data(year, month, monthly_rate, annual_rate, cpi_index)
AddMonthly ==
    /\ Idle
    /\ \E c \in AddCalls :
          \E prev_cpi \in GetCpiForDate(store, PrevMonthDate(c[1], c[2])) :
             \E r \in {AddMonthlyData(store, c[1], c[2], c[3], c[4], c[5],
                                      prev_cpi, clock + 1)} :
                /\ Write(r.db)
                /\ last' = [op |-> "add", before |-> store, ok |-> r.ok,
                            year |-> c[1], month |-> c[2], monthly_rate |-> c[3],
                            annual_rate |-> c[4], cpi_index |-> c[5]]

\* get_cpi_for_date(target_date)
QueryCpi ==
    /\ Idle
    /\ \E d \in QueryDates :
          \E c \in GetCpiForDate(store, d) :
             last' = [op |-> "get_cpi", target_date |-> d, result |-> c]
    /\ UNCHANGED <<store, historical, recent, today, clock>>

\* GET /inflation/current
CurrentInflation ==
    /\ Idle
    /\ \E summary \in {GetInflationSummary(store)} :
          last' = [op |-> "current", summary |-> summary,
                   response |-> CurrentInflationResponse(summary)]
    /\ UNCHANGED <<store, historical, recent, today, clock>>

\* The outcome of one /inflation/convert call, as the caller sees it.
Converted(amount, from_date, to_date, from_cpi, to_cpi, conv) ==
    [op |-> "convert", from_date |-> from_date, to_date |-> to_date,
     amount |-> amount, from_cpi |-> from_cpi, to_cpi |-> to_cpi,
     response |-> ConvertPriceResponse(amount, from_date, to_date, conv)]

\* GET /inflation/convert?amount&from_date&to_date
ConvertPrice ==
    /\ Idle
    /\ \E c \in ConvertCalls :
          IF WellFormed(c[2]) /\ WellFormed(c[3])
          THEN \E from_cpi \in GetCpiForDate(store, StrPTime(c[2])),
                  to_cpi \in GetCpiForDate(store, StrPTime(c[3])) :
                  last' = Converted(c[1], c[2], c[3], from_cpi, to_cpi,
                              CalculatePriceConversion(c[1], from_cpi, to_cpi))
          ELSE last' = Converted(c[1], c[2], c[3], NoneVal, NoneVal,
                                 [raised |-> "ValueError"])
    /\ UNCHANGED <<store, historical, recent, today, clock>>

\* load_historical_csv() with the CSV file in place or removed; the caller
\* sees the frame's length and its rows at both ends.
LoadCsv ==
    /\ Idle
    /\ \E exists \in BOOLEAN :
          \E df \in {LoadHistoricalCsvFile(exists, historical)} :
             last' = [op |-> "load", exists |-> exists, rows |-> Len(df),
                      ends |-> IF Len(df) = 0 THEN <<>>
                               ELSE <<df[1], df[Len(df)]>>]
    /\ UNCHANGED <<store, historical, recent, today, clock>>

\* GET /inflation/range
InflationRange ==
    /\ Idle
    /\ \E c \in ConvertCalls :
          last' = [op |-> "range", start_date |-> c[2], end_date |-> c[3],
                   response |-> InflationRangeResponse(c[2], c[3])]
    /\ UNCHANGED <<store, historical, recent, today, clock>>

\* POST /admin/update-data
AdminUpdate ==
    /\ Idle
    /\ last' = [op |-> "admin_update", before |-> store,
                response |-> TriggerDataUpdate]
    /\ UNCHANGED <<store, historical, recent, today, clock>>

Next ==
    \/ Return
    \/ Tick
    \/ FredPublish
    \/ Startup
    \/ Setup
    \/ UpdateRecent
    \/ AddMonthly
    \/ QueryCpi
    \/ ConvertPrice
    \/ CurrentInflation
    \/ InflationRange
    \/ AdminUpdate
    \/ LoadCsv

Spec == Init /\ [][Next]_vars

\* ------------------------------------------- save_inflation_data, directly

\* Longest batch handed to save_inflation_data.
MaxBatch == 2

\* The date strings of batch entries: two months and a day that does not
\* exist, which strptime rejects.
BatchDates == {<<2025, 1, 1>>, <<2025, 2, 1>>, <<2025, 2, 30>>}

\* The index values of batch entries; an entry's rates go with its index.
BatchCpis == {1000, 2000}

\* The record dicts a batch is made of.
BatchEntries ==
    {[date |-> d, year |-> d[1], month |-> d[2], cpi_index |-> c,
      monthly_rate |-> c \div 100, annual_rate |-> c \div 10] :
        d \in BatchDates, c \in BatchCpis}

Batches == UNION {[1..n -> BatchEntries] : n \in 0..MaxBatch}

\* The tables save_inflation_data starts from: empty, or January stored.
SavedBefore == {{}, {NewRow(Date(2025, 1, 1), 2025, 1, 500, 5, 50, 0)}}

SaveInit ==
    /\ store \in SavedBefore
    /\ historical = <<>>
    /\ recent = InitialObservations
    /\ today = InitialToday
    /\ clock = 0
    /\ last = [op |-> "idle"]

\* save_inflation_data(batch)
SaveBatch ==
    /\ Idle
    /\ \E batch \in Batches :
          \E r \in {SaveInflationData(store, batch, clock + 1)} :
             /\ Write(r.db)
             /\ last' = [op |-> "save", batch |-> batch, before |-> store,
                         ok |-> r.ok]

SaveNext ==
    \/ SaveBatch
    \/ Return

SpecSave == SaveInit /\ [][SaveNext]_vars

\* -------------------------------------------------- fill_2017_gap, directly

\* A stored row of the years around the gap.
FillRow(year, month, cpi) == NewRow(Date(year, month, 1), year, month, cpi, 20, 240, 0)

\* Index values of the December 2016 row; add_monthly_data stores whatever
\* cpi_index it is given or computes, zero and negative values too.
FillStartCpis == {10000, 0, -5000}

\* Index values of the December 2017 row.
FillEndCpis == {20000, 12000, -6000}

\* The tables the script starts from: December 2016, with or without
\* December 2017, June 2016 and March 2017.
FillStores ==
    { ({FillRow(2016, 12, a)} \cup e) \cup (j \cup m) :
        a \in FillStartCpis,
        e \in {{}} \cup {{FillRow(2017, 12, b)} : b \in FillEndCpis},
        j \in {{}, {FillRow(2016, 6, 9000)}},
        m \in {{}, {FillRow(2017, 3, 11000)}} }

FillInit ==
    /\ store \in FillStores
    /\ historical = <<>>
    /\ recent = InitialObservations
    /\ today = InitialToday
    /\ clock = 0
    /\ last = [op |-> "idle"]

\* python fill_2017_gap.py, choice 1
FillGap ==
    /\ Idle
    /\ \E dec_2016 \in FirstOfMonth(store, 2016, 12),
          dec_2017 \in FirstOfMonth(store, 2017, 12) :
          \E got \in {Interpolate2017Months(store, dec_2016, dec_2017)} :
             /\ Write(FillGapWith(store, got, clock + 1))
             /\ last' = [op |-> "fill", before |-> store,
                         dec_2016 |-> dec_2016, dec_2017 |-> dec_2017,
                         raised |-> got.raised, records |-> got.records]

FillNext ==
    \/ FillGap
    \/ Return

SpecFill == FillInit /\ [][FillNext]_vars

\* ------------------------------------------------- concurrent operations
\* Two save_inflation_data calls and one calculate_price_conversion call run
\* at once, each in a session of its own.  A query reads the committed
\* table; db.commit() flushes and commits in one transaction.  last holds
\* the calls in flight.

\* The batches of the concurrent writers: one entry a date, dates that parse.
ConcBatches ==
    {b \in Batches :
        /\ Len(b) >= 1
        /\ \A i \in 1..Len(b) : WellFormed(b[i].date)
        /\ \A i, j \in 1..Len(b) : b[i].date = b[j].date => i = j}

\* The tables the concurrent calls start from.
ConcStores ==
    {{},
     {NewRow(Date(2025, 1, 1), 2025, 1, 1000, 10, 100, 0)},
     {NewRow(Date(2025, 1, 1), 2025, 1, 1000, 10, 100, 0),
      NewRow(Date(2025, 2, 1), 2025, 2, 1000, 10, 100, 0)}}

\* The dates of the conversion in flight.
ConcFromDate == Date(2025, 1, 1)

ConcToDate == Date(2025, 2, 1)

\* existing = db.query(...).filter(date == ...).first() on the committed
\* table: the row as the session loads it, or None.
SessionQuery(db, record) ==
    IF ByDate(db, StrPTime(record.date)) = {} THEN NoneVal
    ELSE Some(CHOOSE r \in ByDate(db, StrPTime(record.date)) : TRUE)

\* The UPDATE the flush emits for a row loaded as loaded and assigned the
\* values of record, applied to the row cur the table holds now: the unit
\* of work writes the columns whose assigned value differs from the loaded
\* one; updated_at always differs.
FlushUpdate(cur, loaded, record, now) ==
    [cur EXCEPT
        !.cpi_index = IF record.cpi_index # loaded.cpi_index
                      THEN record.cpi_index ELSE @,
        !.monthly_rate = IF record.monthly_rate # loaded.monthly_rate
                         THEN record.monthly_rate ELSE @,
        !.annual_rate = IF record.annual_rate # loaded.annual_rate
                        THEN record.annual_rate ELSE @,
        !.updated_at = now]

\* The row the flush leaves for entry record of the batch, loaded as loaded.
FlushRow(db, loaded, record, now) ==
    IF loaded = NoneVal
    THEN NewRow(StrPTime(record.date), record.year, record.month,
                record.cpi_index, record.monthly_rate, record.annual_rate, now)
    ELSE FlushUpdate(CHOOSE r \in ByDate(db, StrPTime(record.date)) : TRUE,
                     loaded[1], record, now)

\* db.commit() of a session that ran the loop of save_inflation_data over
\* batch, loaded[i] being what its query for batch[i] returned: [ok, db].
\* An INSERT of a date another session committed meanwhile violates the
\* UNIQUE constraint: the except clause rolls back and returns False.
ConcCommit(db, batch, loaded, now) ==
    IF \E i \in 1..Len(batch) :
          loaded[i] = NoneVal /\ ByDate(db, StrPTime(batch[i].date)) # {}
    THEN [ok |-> FALSE, db |-> db]
    ELSE [ok |-> TRUE,
          db |-> {r \in db : \A i \in 1..Len(batch) :
                                r.date # StrPTime(batch[i].date)}
                 \cup {FlushRow(db, loaded[i], batch[i], now) :
                          i \in 1..Len(batch)}]

ConcInit ==
    /\ store \in ConcStores
    /\ historical = <<>>
    /\ recent = InitialObservations
    /\ today = InitialToday
    /\ clock = 0
    /\ last = [op |-> "concurrent",
               writers |-> [w \in 1..2 |-> [pc |-> "idle"]],
               conv |-> [pc |-> "idle"]]

\* save_inflation_data(batch) is called: the session opens.
WriterBegin(w) ==
    /\ last.op = "concurrent"
    /\ last.writers[w].pc = "idle"
    /\ \E batch \in ConcBatches :
          last' = [last EXCEPT !.writers[w] =
                      [pc |-> "loop", batch |-> batch, loaded |-> <<>>]]
    /\ UNCHANGED <<store, historical, recent, today, clock>>

\* One turn of the for loop: the existence query and the assignments.
WriterLoad(w) ==
    /\ last.op = "concurrent"
    /\ last.writers[w].pc = "loop"
    /\ Len(last.writers[w].loaded) < Len(last.writers[w].batch)
    /\ last' = [last EXCEPT !.writers[w].loaded =
                    Append(@, SessionQuery(
                                  store,
                                  last.writers[w].batch[Len(@) + 1]))]
    /\ UNCHANGED <<store, historical, recent, today, clock>>

\* The conversion in flight sees the table db committed.
ConvSees(conv, db) ==
    IF conv.pc = "second" THEN [conv EXCEPT !.seen = @ \cup {db}] ELSE conv

\* db.commit(), or the rollback, and the return.
WriterCommit(w) ==
    /\ last.op = "concurrent"
    /\ last.writers[w].pc = "loop"
    /\ Len(last.writers[w].loaded) = Len(last.writers[w].batch)
    /\ \E r \in {ConcCommit(store, last.writers[w].batch,
                             last.writers[w].loaded, clock + 1)} :
          /\ store' = r.db
          /\ last' = [last EXCEPT
                         !.writers[w] = [pc |-> "done",
                                         batch |-> last.writers[w].batch,
                                         ok |-> r.ok,
                                         before |-> store,
                                         after |-> r.db],
                         !.conv = ConvSees(@, r.db)]
    /\ clock' = clock + 1
    /\ UNCHANGED <<historical, recent, today>>

\* calculate_price_conversion: from_cpi = get_cpi_for_date(from_date)
ConvFirst ==
    /\ last.op = "concurrent"
    /\ last.conv.pc = "idle"
    /\ \E from_cpi \in GetCpiForDate(store, ConcFromDate) :
          last' = [last EXCEPT !.conv =
                      [pc |-> "second", from_cpi |-> from_cpi, seen |-> {store}]]
    /\ UNCHANGED <<store, historical, recent, today, clock>>

\* calculate_price_conversion: to_cpi = get_cpi_for_date(to_date), and the
\* result.
ConvSecond ==
    /\ last.op = "concurrent"
    /\ last.conv.pc = "second"
    /\ \E to_cpi \in GetCpiForDate(store, ConcToDate) :
          last' = [last EXCEPT !.conv =
                      [pc |-> "done", from_cpi |-> last.conv.from_cpi,
                       to_cpi |-> to_cpi, seen |-> last.conv.seen,
                       result |-> CalculatePriceConversion(
                                      1000, last.conv.from_cpi, to_cpi)]]
    /\ UNCHANGED <<store, historical, recent, today, clock>>

ConcNext ==
    \/ \E w \in 1..2 : WriterBegin(w)
    \/ \E w \in 1..2 : WriterLoad(w)
    \/ \E w \in 1..2 : WriterCommit(w)
    \/ ConvFirst
    \/ ConvSecond

SpecConc == ConcInit /\ [][ConcNext]_vars

\* ------------------------------------------------------- reload_database
\* python reload_database.py, a step of main() at a time.  last holds the
\* position of the script, whether inflation.db is on disk (db_file) and
\* the state of argentina_cpi_historical.csv (csv); store is the table in
\* inflation.db, empty when the file is absent.

\* The states of the CSV file: present with columns date and cpi, absent,
\* present with other columns.
CsvStates == {"ok", "missing", "wrong"}

ReloadInit ==
    /\ historical \in HistoricalFiles
    /\ recent = InitialObservations
    /\ today = InitialToday
    /\ clock = 0
    /\ \E db_file \in BOOLEAN, csv \in CsvStates :
          /\ store \in (IF db_file THEN ConcStores ELSE {{}})
          /\ last = [op |-> "reload", pc |-> "check", had_db |-> db_file,
                     db_file |-> db_file, csv |-> csv, code |-> 0]

\* sys.exit(code)
ReloadExit(code) == [last EXCEPT !.pc = "exit", !.code = code]

\* check_backend_running()
CheckBackendRunning ==
    /\ last.op = "reload"
    /\ last.pc = "check"
    /\ \E response \in {"yes", "no"} :
          last' = IF response = "yes" THEN [last EXCEPT !.pc = "delete"]
                  ELSE ReloadExit(1)
    /\ UNCHANGED <<store, historical, recent, today, clock>>

\* delete_database(): unlinked tells whether db_file.unlink() went through.
DeleteDatabase ==
    /\ last.op = "reload"
    /\ last.pc = "delete"
    /\ \E unlinked \in BOOLEAN :
          IF last.db_file /\ ~unlinked
          THEN /\ last' = ReloadExit(1)
               /\ store' = store
          ELSE /\ last' = [last EXCEPT !.pc = "verify", !.db_file = FALSE]
               /\ store' = {}
    /\ UNCHANGED <<historical, recent, today, clock>>

\* verify_csv()
VerifyCsv ==
    /\ last.op = "reload"
    /\ last.pc = "verify"
    /\ last' = IF last.csv = "ok" THEN [last EXCEPT !.pc = "setup"]
               ELSE ReloadExit(1)
    /\ UNCHANGED <<store, historical, recent, today, clock>>

\* setup_initial_data(): init_db() creates inflation.db.
RunSetup ==
    /\ last.op = "reload"
    /\ last.pc = "setup"
    /\ \E fetched \in Fetches, tie \in Ties :
          \E r \in {SetupInitialData(store, historical, recent, fetched, tie,
                                     clock + 1)} :
             /\ store' = r.db
             /\ last' = [last EXCEPT !.pc = "exit", !.db_file = TRUE,
                                     !.code = IF r.ok THEN 0 ELSE 1]
    /\ clock' = clock + 1
    /\ UNCHANGED <<historical, recent, today>>

ReloadNext ==
    \/ CheckBackendRunning
    \/ DeleteDatabase
    \/ VerifyCsv
    \/ RunSetup

SpecReload == ReloadInit /\ [][ReloadNext]_vars

\* ------------------------------------------------------------------ claims

\* The stored rows of the calendar month of date d.
RowsOfMonth(d) ==
    {r \in store : YearOf(r.date) = YearOf(d) /\ MonthOf(r.date) = MonthOf(d)}

\* C1: at most one stored record per calendar (year, month), and every
\* stored date is the first day of its month.
C1_OneRecordPerMonthOnFirstDay ==
    \A r \in store :
        /\ DayOf(r.date) = 1
        /\ RowsOfMonth(r.date) = {r}

\* C2: every stored record has cpi_index > 0.
C2_CpiIndexPositive == \A r \in store : r.cpi_index > 0

\* C3: get_cpi_for_date(d) returns the cpi_index of the record dated exactly
\* d when one exists; otherwise, when the month of d has a record, the
\* cpi_index of a record of that month.
C3_ExactThenSameMonth ==
    last.op = "get_cpi" =>
        IF \E r \in store : r.date = last.target_date
        THEN \E r \in store : /\ r.date = last.target_date
                               /\ last.result = Some(r.cpi_index)
        ELSE RowsOfMonth(last.target_date) # {} =>
                \E r \in RowsOfMonth(last.target_date) :
                    last.result = Some(r.cpi_index)

\* A lookup of a date that no record carries, answered from the record of
\* its month.
C3_Witness ==
    /\ last.op = "get_cpi"
    /\ ~\E r \in store : r.date = last.target_date
    /\ \E r \in RowsOfMonth(last.target_date) : last.result = Some(r.cpi_index)

\* C4: for a date whose month has no record, get_cpi_for_date returns the
\* cpi_index of the latest record when the date is after every record, and
\* of the earliest record when the date is before every record; it returns
\* a value in both cases.
C4_ClampToLatestOrEarliest ==
    (last.op = "get_cpi" /\ store # {} /\ RowsOfMonth(last.target_date) = {}) =>
        /\ (\A q \in store : q.date < last.target_date) =>
               \E r \in store : /\ \A q \in store : q.date <= r.date
                                 /\ last.result = Some(r.cpi_index)
        /\ (\A q \in store : q.date > last.target_date) =>
               \E r \in store : /\ \A q \in store : q.date >= r.date
                                 /\ last.result = Some(r.cpi_index)

\* A lookup of a date after every stored record, answered with a value.
C4_Witness ==
    /\ last.op = "get_cpi"
    /\ store # {}
    /\ RowsOfMonth(last.target_date) = {}
    /\ \A q \in store : q.date < last.target_date
    /\ last.result # NoneVal

C6_UnresolvedIsBadRequest ==
    ( /\ last.op = "convert"
      /\ \/ ~WellFormed(last.from_date)
         \/ ~WellFormed(last.to_date)
         \/ last.from_cpi = NoneVal
         \/ last.to_cpi = NoneVal ) =>
        /\ last.response.status = 400
        /\ DOMAIN last.response = {"status"}

\* A request with two well-formed dates of which the target is not resolved,
\* answered 400.
C6_Witness ==
    /\ last.op = "convert"
    /\ WellFormed(last.from_date)
    /\ WellFormed(last.to_date)
    /\ last.from_cpi # NoneVal
    /\ last.to_cpi = NoneVal
    /\ last.response.status = 400

\* C7: for every amount and every pair of dates that both resolve, the
\* conversion returns multiplier = cpiTo / cpiFrom to 4 decimals,
\* converted_amount = amount * cpiTo / cpiFrom to 2 decimals and
\* percentage_change = (cpiTo / cpiFrom - 1) * 100 to 2 decimals.
C7_ConversionFormula ==
    ( /\ last.op = "convert"
      /\ WellFormed(last.from_date)
      /\ WellFormed(last.to_date)
      /\ last.from_cpi # NoneVal
      /\ last.to_cpi # NoneVal ) =>
        /\ last.response.status = 200
        /\ last.response.inflation_rate
               = RoundDiv(last.to_cpi[1] * 10000, last.from_cpi[1])
        /\ last.response.converted_amount
               = RoundDiv(last.amount * last.to_cpi[1] * 100, last.from_cpi[1])
        /\ last.response.percentage_change
               = RoundDiv((last.to_cpi[1] - last.from_cpi[1]) * 10000,
                          last.from_cpi[1])

\* The stored rows dated exactly twelve calendar months before row r.
RowsYearBefore(r) == {p \in store : p.date = r.date - 10000}

\* The stored rows of the calendar month before the month of row r.
RowsMonthBefore(r) ==
    {p \in store :
        Date(YearOf(p.date), MonthOf(p.date), 1)
            = PrevMonthDate(YearOf(r.date), MonthOf(r.date))}

Abs(x) == IF x < 0 THEN -x ELSE x

\* The rate of cur against prev, to the nearest tenth of a percent, is the
\* stored rate up to one tenth.
RateMatches(rate, cur, prev) ==
    /\ prev > 0
    /\ Abs(rate - RoundDiv((cur - prev) * 1000, prev)) <= 1

\* C8: each record's annual_rate is (cpi_index / cpi_index of the record
\* exactly twelve calendar months earlier - 1) * 100, and 0 when there is no
\* such record.
C8_AnnualRateFromIndex ==
    \A r \in store :
        IF RowsYearBefore(r) = {} THEN r.annual_rate = 0
        ELSE \A p \in RowsYearBefore(r) :
                RateMatches(r.annual_rate, r.cpi_index, p.cpi_index)

\* C9: each record's monthly_rate is (cpi_index / cpi_index of the record of
\* the preceding calendar month - 1) * 100, and 0 when the preceding month
\* has no record.
C9_MonthlyRateFromIndex ==
    \A r \in store :
        IF RowsMonthBefore(r) = {} THEN r.monthly_rate = 0
        ELSE \A p \in RowsMonthBefore(r) :
                RateMatches(r.monthly_rate, r.cpi_index, p.cpi_index)

\* C10: a startup refresh that begins with a non-empty store ends with the
\* latest stored month not behind the current month.
C10_StartupEndsUpToDate ==
    (last.op = "startup" /\ last.before # {}) =>
        \E r \in store : MonthsDiff(today, r.date) <= 0

\* C11: running the startup refresh again right after a startup, with the
\* sources delivering the same data and the same current date, leaves the
\* store identical: same records, cpi_index, rates and updated_at unchanged.
C11_SecondStartupChangesNothing ==
    last.op = "startup" =>
        \A tie1 \in Ties, tie2 \in Ties :
            StartupEvent(store, historical, recent, today, last.fetched1,
                         tie1, last.fetched2, tie2, clock + 1) = store

\* A startup that added records has just run.
C11_Witness ==
    /\ last.op = "startup"
    /\ store # {}
    /\ store # last.before
    /\ C11_SecondStartupChangesNothing

\* Position of the last entry of batch for the date string d.
LastEntryFor(batch, d) ==
    CHOOSE i \in 1..Len(batch) :
        /\ batch[i].date = d
        /\ \A j \in 1..Len(batch) : batch[j].date = d => j <= i

\* C12: after save_inflation_data(batch), every date of the batch has
\* exactly one stored record, carrying cpi_index, monthly_rate and
\* annual_rate of the last batch entry for that date, with updated_at
\* increased when the record existed before.  Stated for batches whose
\* dates all parse.
C12_LastWriteWins ==
    (/\ last.op = "save"
     /\ \A i \in 1..Len(last.batch) : WellFormed(last.batch[i].date)) =>
        \A i \in 1..Len(last.batch) :
            LET e   == last.batch[LastEntryFor(last.batch, last.batch[i].date)]
                d   == StrPTime(e.date)
                now == ByDate(store, d)
                old == ByDate(last.before, d)
            IN  /\ Cardinality(now) = 1
                /\ \A r \in now :
                      /\ r.cpi_index = e.cpi_index
                      /\ r.monthly_rate = e.monthly_rate
                      /\ r.annual_rate = e.annual_rate
                      /\ \A o \in old : r.updated_at > o.updated_at

\* The batch entries whose parsed date is d.
EntriesFor(batch, d) ==
    {i \in 1..Len(batch) : WellFormed(batch[i].date) /\ StrPTime(batch[i].date) = d}

\* C13: a batch write is all-or-nothing.  When save_inflation_data returns
\* False the store is exactly as before the call; and every record the call
\* left different from before carries cpi_index, monthly_rate and annual_rate
\* of one and the same batch entry for its date.
C13_BatchAllOrNothing ==
    last.op = "save" =>
        /\ ~last.ok => store = last.before
        /\ \A r \in store \ last.before :
              \E i \in EntriesFor(last.batch, r.date) :
                  /\ r.cpi_index = last.batch[i].cpi_index
                  /\ r.monthly_rate = last.batch[i].monthly_rate
                  /\ r.annual_rate = last.batch[i].annual_rate

\* A batch failed after its first entry had rewritten a stored record.
C13_Witness ==
    /\ last.op = "save"
    /\ ~last.ok
    /\ Len(last.batch) = 2
    /\ WellFormed(last.batch[1].date)
    /\ \E o \in ByDate(last.before, StrPTime(last.batch[1].date)) :
          o.cpi_index # last.batch[1].cpi_index
    /\ ~WellFormed(last.batch[2].date)

\* C14: on an empty store get_inflation_summary returns None without raising
\* and /inflation/current answers 404, never a summary.
C14_EmptyStoreHasNoSummary ==
    (last.op = "current" /\ store = {}) =>
        /\ last.summary.raised = ""
        /\ last.summary.value = NoneVal
        /\ last.response = [status |-> 404]

\* /inflation/current was asked on an empty store.
C14_Witness ==
    /\ last.op = "current"
    /\ store = {}
    /\ last.response.status = 404

\* The records dated within the 365 days up to the latest date of the store.
WithinYearOfLatest ==
    {r \in store : \A l \in store :
        (\A q \in store : q.date <= l.date) =>
            /\ ToOrdinal(r.date) >= ToOrdinal(l.date) - 365
            /\ r.date <= l.date}

\* C15: on a non-empty store get_inflation_summary returns a summary with
\* the monthly and annual rate of the latest-dated record, the mean of
\* monthly_rate over the records dated within the 365 days up to the latest
\* date (to two decimals), and (latestCpi / firstCpi - 1) * 100 against the
\* earliest-dated record (to two decimals).
C15_SummaryOfNonEmptyStore ==
    (last.op = "current" /\ store # {}) =>
        /\ last.summary.raised = ""
        /\ last.summary.value # NoneVal
        /\ \A l \in store, f \in store :
              (\A q \in store : f.date <= q.date /\ q.date <= l.date) =>
                  /\ last.summary.value[1].current_monthly = l.monthly_rate
                  /\ last.summary.value[1].current_annual = l.annual_rate
                  /\ last.summary.value[1].avg_last_12_months =
                        PyRound(SumMonthlyRate(WithinYearOfLatest) * 10,
                                Cardinality(WithinYearOfLatest))
                  /\ f.cpi_index # 0
                  /\ last.summary.value[1].total_inflation_since_start =
                        PyRound((l.cpi_index - f.cpi_index) * 10000, f.cpi_index)

\* C16: for two dates that both resolve to a CPI, /inflation/range answers
\* with total inflation (cpiAt(end) / cpiAt(start) - 1) * 100 and multiplier
\* cpiAt(end) / cpiAt(start), the figures convert gives (percentage_change
\* and multiplier of calculate_price_conversion).
C16_RangeIsCpiRatio ==
    (/\ last.op = "range"
     /\ WellFormed(last.start_date)
     /\ WellFormed(last.end_date)) =>
        \A s \in GetCpiForDate(store, StrPTime(last.start_date)),
           e \in GetCpiForDate(store, StrPTime(last.end_date)) :
            (s # NoneVal /\ e # NoneVal /\ s[1] # 0) =>
                /\ last.response.status = 200
                /\ last.response.total_inflation_percent =
                      CalculatePriceConversion(1000, s, e).percentage_change
                /\ last.response.multiplier =
                      CalculatePriceConversion(1000, s, e).multiplier

\* The months the remote feed holds after the month of date d, up to the
\* current month.
FeedMonthsAfter(d) ==
    {m \in {recent[i].date : i \in 1..Len(recent)} :
        MonthsDiff(m, d) > 0 /\ MonthsDiff(today, m) >= 0}

\* C17: once POST /admin/update-data has reported success, the months the
\* sources hold after the latest stored month (the store being behind the
\* current month) are in the store.
C17_AdminUpdateRefreshes ==
    (/\ last.op = "admin_update"
     /\ last.response.status = "success"
     /\ last.before # {}) =>
        \A l \in last.before :
            ((\A q \in last.before : q.date <= l.date)
                /\ MonthsDiff(today, l.date) > 0) =>
                \A m \in FeedMonthsAfter(l.date) :
                    ByYearMonth(store, YearOf(m), MonthOf(m)) # {}

\* The first days of the calendar months from the month of a through the
\* month of b.
MonthsFromTo(a, b) == {AddMonths(a, k) : k \in 0..MonthsDiff(b, a)}

\* C18: after a refresh cycle on a non-empty store, every calendar month
\* from the latest month stored before the refresh through the latest month
\* stored after it has a record.
C18_RefreshedSpanIsContiguous ==
    (last.op = "startup" /\ last.before # {}) =>
        \A m \in MonthsFromTo(LatestRecord(last.before)[1].date,
                               LatestRecord(store)[1].date) :
            ByYearMonth(store, YearOf(m), MonthOf(m)) # {}

\* got is a result of get_processed_data with one record for each month of
\* the source rows, its rates recomputed from the returned index values.
OneRecordPerMonthRecomputed(got, rows) ==
    /\ ~got.raised
    /\ {StrPTime(got.data[i].date) : i \in 1..Len(got.data)}
          = {rows[i].date : i \in 1..Len(rows)}
    /\ Len(got.data) = Cardinality({rows[i].date : i \in 1..Len(rows)})
    /\ \A i \in 1..Len(got.data) :
          /\ got.data[i].monthly_rate =
                (IF i > 1 THEN PctChange(got.data[i].cpi_index,
                                         got.data[i - 1].cpi_index) ELSE 0)
          /\ got.data[i].annual_rate =
                (IF i > 12 THEN PctChange(got.data[i].cpi_index,
                                          got.data[i - 12].cpi_index) ELSE 0)

\* C19: when exactly one of the two sources is non-empty, get_processed_data
\* (as setup_data.py calls it) does not raise and returns that source's
\* records, one per input month, with rates recomputed from its CPI values.
C19_OneSourceIsEnough ==
    (/\ last.op = "setup"
     /\ (LoadHistoricalCsv(historical) = <<>>)
          # (FetchRecentFredData(recent, last.fetched) = <<>>)) =>
        OneRecordPerMonthRecomputed(
            GetProcessedData(historical, recent, last.fetched, 1995, last.tie),
            IF LoadHistoricalCsv(historical) = <<>> THEN recent ELSE historical)

\* C20: when both sources are empty get_processed_data returns an empty
\* result, and a startup on an empty store returns from its population step
\* (no refresh, no override) with the store still empty.
C20_NoDataLeavesStoreEmpty ==
    (/\ last.op = "startup"
     /\ last.before = {}
     /\ LoadHistoricalCsv(historical) = <<>>
     /\ FetchRecentFredData(recent, last.fetched1) = <<>>) =>
        /\ \A tie \in Ties :
              /\ GetProcessedData(historical, recent, last.fetched1, 1995, tie)
                    = [raised |-> FALSE, data |-> <<>>]
              /\ ~StartupPopulate(last.before, historical, recent,
                                  last.fetched1, tie, clock + 1).go
        /\ store = {}

\* A startup on an empty store found the CSV empty and the request failing.
C20_Witness ==
    /\ last.op = "startup"
    /\ last.before = {}
    /\ historical = <<>>
    /\ ~last.fetched1
    /\ store = {}

\* C21: when the historical CSV file is absent, load_historical_csv hands
\* the merger an empty historical frame (no row that is not in a source).
C21_AbsentFileIsEmptySource ==
    (last.op = "load" /\ ~last.exists) => last.rows = 0

\* The index value of the chronologically last row of frame df.
LastCpi(df) ==
    df[CHOOSE i \in 1..Len(df) : \A j \in 1..Len(df) : df[j].date <= df[i].date]
        .cpi

\* In the merged rows every row of the recent frame appears at its date with
\* its value times last_cpi / first recent value, the first one with last_cpi
\* itself.
RecentRescaledIn(merged, recent_df, last_cpi) ==
    /\ \E k \in 1..Len(merged) :
          merged[k].date = recent_df[1].date /\ merged[k].cpi = last_cpi
    /\ \A i \in 1..Len(recent_df) :
          \E k \in 1..Len(merged) :
              /\ merged[k].date = recent_df[i].date
              /\ merged[k].cpi = RoundDiv(recent_df[i].cpi * last_cpi,
                                        recent_df[1].cpi)

Near(x, y) == Abs(x - y) * 1000 <= 3 * Abs(y)

\* C23: with the December 2016 and December 2017 anchors present (positive
\* indices), interpolate_2017_months returns exactly 11 records, January to
\* November 2017 in order, all with one monthly_rate, each index the one
\* before it grown by that rate, and one more such step from November
\* reaches the index of December 2017.
C23_InterpolationIsGeometric ==
    (/\ last.op = "fill"
     /\ last.dec_2016 # NoneVal
     /\ last.dec_2017 # NoneVal
     /\ last.dec_2016[1].cpi_index > 0
     /\ last.dec_2017[1].cpi_index > 0) =>
        /\ last.raised = ""
        /\ Len(last.records) = 11
        /\ \A k \in 1..11 :
              /\ last.records[k].year = 2017
              /\ last.records[k].month = k
              /\ last.records[k].monthly_rate = last.records[1].monthly_rate
              /\ Near(last.records[k].cpi_index,
                      CalculateCpiFromMonthlyRate(
                          IF k = 1 THEN last.dec_2016[1].cpi_index
                          ELSE last.records[k - 1].cpi_index,
                          last.records[k].monthly_rate))
        /\ Near(CalculateCpiFromMonthlyRate(last.records[11].cpi_index,
                                            last.records[11].monthly_rate),
                last.dec_2017[1].cpi_index)

\* The script interpolated between two positive anchors and stored months.
C23_Witness ==
    /\ last.op = "fill"
    /\ last.dec_2016 # NoneVal
    /\ last.dec_2017 # NoneVal
    /\ last.dec_2016[1].cpi_index > 0
    /\ last.dec_2017[1].cpi_index > 0
    /\ Len(last.records) = 11
    /\ store # last.before

\* C24: an interpolation whose start anchor has cpi_index <= 0 fails: it
\* raises, produces no records and leaves the store as it was.
C24_BadStartAnchorFails ==
    (/\ last.op = "fill"
     /\ last.dec_2016 # NoneVal
     /\ last.dec_2017 # NoneVal
     /\ last.dec_2016[1].cpi_index <= 0) =>
        /\ last.raised # ""
        /\ last.records = <<>>
        /\ store = last.before

\* C25: add_monthly_data called without annual_rate stores, for the target
\* month, (cpi_index of the target month / cpi_index of the record twelve
\* months earlier - 1) * 100 whenever that earlier record exists, and
\* monthly_rate * 12 only when it does not.
C25_AnnualRateIsYearOverYear ==
    (last.op = "add" /\ last.ok /\ last.annual_rate = NoneVal) =>
        \A r \in ByDate(store, Date(last.year, last.month, 1)) :
            IF ByDate(store, Date(last.year - 1, last.month, 1)) = {}
            THEN r.annual_rate = EstimateAnnualRateFromMonthly(last.monthly_rate)
            ELSE \A p \in ByDate(store, Date(last.year - 1, last.month, 1)) :
                    RateMatches(r.annual_rate, r.cpi_index, p.cpi_index)

\* C26: when add_monthly_data is called without cpi_index for a month whose
\* preceding month has no record, the stored cpi_index is the index of the
\* latest stored record compounded by monthly_rate over the months from that
\* record to the target month (a target after the latest record).
C26_MultiStepFromLatest ==
    (/\ last.op = "add"
     /\ last.ok
     /\ last.cpi_index = NoneVal
     /\ last.before # {}
     /\ ByDate(last.before, PrevMonthDate(last.year, last.month)) = {}
     /\ MonthsDiff(Date(last.year, last.month, 1),
                   LatestRecord(last.before)[1].date) > 0) =>
        \A r \in ByDate(store, Date(last.year, last.month, 1)) :
            r.cpi_index =
                Compound(LatestRecord(last.before)[1].cpi_index,
                         last.monthly_rate,
                         MonthsDiff(Date(last.year, last.month, 1),
                                    LatestRecord(last.before)[1].date))

\* Writer w returned: a batch that returned True is in the table its commit
\* left, every entry with its values; one that returned False left the table
\* as it found it.
AppliedOrNot(w) ==
    IF w.ok
    THEN \A i \in 1..Len(w.batch) :
            \E r \in w.after :
                /\ r.date = StrPTime(w.batch[i].date)
                /\ r.cpi_index = w.batch[i].cpi_index
                /\ r.monthly_rate = w.batch[i].monthly_rate
                /\ r.annual_rate = w.batch[i].annual_rate
    ELSE w.after = w.before

\* C27: under any interleaving of two concurrent save_inflation_data calls
\* over overlapping months, the store never holds two records of one date,
\* and each writer's batch is applied entirely or not at all.
C27_ConcurrentWritersAreAtomic ==
    last.op = "concurrent" =>
        /\ \A r, q \in store : r.date = q.date => r = q
        /\ \A w \in 1..2 :
              last.writers[w].pc = "done" => AppliedOrNot(last.writers[w])

\* C28: the two lookups of calculate_price_conversion observe one store
\* state: a returned multiplier is to_cpi / from_cpi with both indices what
\* get_cpi_for_date returns on one of the tables committed while the call
\* ran.
C28_ConversionReadsOneState ==
    (/\ last.op = "concurrent"
     /\ last.conv.pc = "done"
     /\ last.conv.result.raised = "") =>
        \E db \in last.conv.seen :
            \E from_cpi \in GetCpiForDate(db, ConcFromDate) :
                \E to_cpi \in GetCpiForDate(db, ConcToDate) :
                    /\ from_cpi # NoneVal
                    /\ to_cpi # NoneVal
                    /\ from_cpi[1] # 0
                    /\ last.conv.result.multiplier
                         = PyRound(to_cpi[1] * 10000, from_cpi[1])

\* C30: the reload script never leaves the system without data because of
\* a bad input: when the historical CSV is missing or has the wrong columns,
\* a database file that existed when the script started is still present
\* when the script exits.
C30_BadCsvKeepsDatabase ==
    (/\ last.op = "reload"
     /\ last.pc = "exit"
     /\ last.had_db
     /\ last.csv \in {"missing", "wrong"}) => last.db_file

\* The table holds one record a calendar month, from its earliest month to
\* its latest, and at least twelve of them.
GapFreeYear(db) ==
    /\ Cardinality(db) >= 12
    /\ \A r, q \in db : (r.year = q.year /\ r.month = q.month) => r = q
    /\ \A r \in db : r.date = Date(r.year, r.month, 1)
    /\ \E lo, hi \in {r.year * 12 + r.month : r \in db} :
          {r.year * 12 + r.month : r \in db} = lo..hi

\* The twelve most recent monthly records of a gap-free table.
TwelveMostRecent(db) ==
    {r \in db : \A q \in db :
        (q.year * 12 + q.month) - (r.year * 12 + r.month) < 12}

\* C29: for a gap-free monthly store the avg_last_12_months of the summary
\* is the mean of exactly the 12 most recent monthly records: the summary
\* averages over those 12 records and no other.
C29_AverageOverTwelveRecords ==
    (/\ last.op = "current"
     /\ last.summary.raised = ""
     /\ GapFreeYear(store)) =>
        /\ LastTwelveMonths(store, LatestRecord(store)[1])
              = TwelveMostRecent(store)
        /\ last.summary.value[1].avg_last_12_months
              = AvgMonthly(TwelveMostRecent(store))

====
